---- MODULE Spec2Model ----
(***************************************************************************)
(* Patient Management System (src/main.py): a FastAPI service whose state  *)
(* is one JSON file, patients.json, read and rewritten whole by every      *)
(* handler.                                                                *)
(*                                                                         *)
(* Numbers.  Heights are centimetres and weights kilograms, both whole in  *)
(* the model; a bmi is carried in hundredths (22.22 is 2222), which is     *)
(* exactly what round(..., 2) leaves.  An Optional[T] value is a set with  *)
(* at most one element: None is {} and the value v is {v}.                 *)
(*                                                                         *)
(* The JSON object in the file is an insertion-ordered mapping (a Python   *)
(* dict round-tripped by json.load/json.dump): it is a sequence of         *)
(* [key, value] entries with distinct keys.                                *)
(***************************************************************************)
EXTENDS Integers, Sequences, FiniteSets, TLC

VARIABLES
    file,     \* the content of patients.json
    req,      \* the request the sequential server handled last
    resp,     \* its response: status, whether save_data ran, the body
    before,   \* patients.json as it was when that request arrived
    pc,       \* concurrent server: each worker's position in its handler
    local,    \* concurrent server: each worker's `data` (its load_data())
    wreq,     \* concurrent server: the request each worker is serving
    wresp,    \* concurrent server: the status each worker returned
    writes,   \* concurrent server: the workers that ran save_data, in order
    bmiIn,    \* the bmi handed to Patient.verdict
    verdictOut \* what Patient.verdict returned for it

vars == <<file, req, resp, before, pc, local, wreq, wresp, writes, bmiIn, verdictOut>>

----------------------------------------------------------------------------
(* Bounds of the model *)

NumIds == 2
MaxBmi == 3200

AllIds == <<"P001", "P002", "P003", "P004">>
Ids == {AllIds[i] : i \in 1..NumIds}
Names == {"Ann"}
Cities == {"Pune"}
Heights == {150, 180}
Weights == {50, 72}
Workers == {"w1", "w2"}

----------------------------------------------------------------------------
(* Optional values and dicts *)

None == {}
Some(v) == {v}
IsNone(o) == o = {}
TheValue(o) == CHOOSE v \in o : TRUE

Keys(data) == {data[i].key : i \in DOMAIN data}
IndexOf(data, k) == CHOOSE i \in DOMAIN data : data[i].key = k
Get(data, k) == data[IndexOf(data, k)].value
Values(data) == [i \in DOMAIN data |-> data[i].value]

\* data[k] = v on a dict: an existing key keeps its place, a new one goes last
SetItem(data, k, v) ==
    IF k \in Keys(data)
    THEN [data EXCEPT ![IndexOf(data, k)] = [key |-> k, value |-> v]]
    ELSE Append(data, [key |-> k, value |-> v])

\* faulty variant: drops the entry that was inserted last (data.popitem())
DelLastItem(data, k) == SubSeq(data, 1, Len(data) - 1)

\* del data[k]
DelItem(data, k) ==
    LET i == IndexOf(data, k)
    IN  [j \in 1..(Len(data) - 1) |-> IF j < i THEN data[j] ELSE data[j + 1]]

----------------------------------------------------------------------------
(* class Patient *)

AgeGt == 0
AgeLt == 120
HeightGt == 0
WeightGt == 0
GenderLiteral == {"male", "female", "other"}
PatientFields == {"id", "name", "city", "age", "gender", "height", "weight"}
ComputedFields == {"bmi", "verdict"}

\* Python's round() of the quotient num/den to a whole number: to nearest,
\* a tie to the even neighbour
RoundHalfEven(num, den) ==
    LET q == num \div den
        r == num % den
    IN  IF 2 * r < den THEN q
        ELSE IF 2 * r > den THEN q + 1
        ELSE IF q % 2 = 0 THEN q ELSE q + 1

\* round(weight / ((height / 100) ** 2), 2), in hundredths
bmi(height, weight) == RoundHalfEven(weight * 1000000, height * height)

UnderweightBelow == 1850
NormalBelow == 2490
OverweightFrom == 2500
OverweightBelow == 2990

verdict(b) ==
    IF b < UnderweightBelow THEN "Underweight"
    ELSE IF UnderweightBelow <= b /\ b < NormalBelow THEN "Normal weight"
    ELSE IF OverweightFrom <= b /\ b < OverweightBelow THEN "Overweight"
    ELSE "Obesity"

\* faulty variant: the age is checked as PatientUpdate checks it, gt=0 only
PatientValidAsUpdate(d) ==
    /\ PatientFields \subseteq DOMAIN d
    /\ \A f \in PatientFields : ~IsNone(d[f])
    /\ TheValue(d["age"]) > AgeGt
    /\ TheValue(d["gender"]) \in GenderLiteral
    /\ TheValue(d["height"]) > HeightGt
    /\ TheValue(d["weight"]) > WeightGt

\* Patient(**d): d maps keys to Optional values.  Every field is required
\* and none may be None; keys that are no field are ignored.
PatientValid(d) ==
    /\ PatientFields \subseteq DOMAIN d
    /\ \A f \in PatientFields : ~IsNone(d[f])
    /\ TheValue(d["age"]) > AgeGt
    /\ TheValue(d["age"]) < AgeLt
    /\ TheValue(d["gender"]) \in GenderLiteral
    /\ TheValue(d["height"]) > HeightGt
    /\ TheValue(d["weight"]) > WeightGt

\* the validated object: its fields, unwrapped
Patient(d) == [f \in PatientFields |-> TheValue(d[f])]

\* faulty variant: the computed fields are left out of the dump
DeclaredFieldsOnly == PatientFields

\* the fields model_dump serialises: the declared ones and the computed ones
DumpedFields == PatientFields \cup ComputedFields

\* faulty variant: exclude is ignored
model_dump_all(patient, exclude) ==
    [f \in DumpedFields |->
        IF f = "bmi" THEN bmi(patient["height"], patient["weight"])
        ELSE IF f = "verdict"
             THEN verdict(bmi(patient["height"], patient["weight"]))
        ELSE patient[f]]

\* patient.model_dump(exclude=...)
model_dump(patient, exclude) ==
    [f \in DumpedFields \ exclude |->
        IF f = "bmi" THEN bmi(patient["height"], patient["weight"])
        ELSE IF f = "verdict"
             THEN verdict(bmi(patient["height"], patient["weight"]))
        ELSE patient[f]]

----------------------------------------------------------------------------
(* class PatientUpdate *)

UpdateFields == {"name", "city", "age", "gender", "height", "weight"}
UpdateAgeGt == 0
UpdateHeightGt == 0
UpdateWeightGt == 0

\* u maps the keys the request body sets to Optional values; a key that is
\* no field is ignored, None passes every field
PatientUpdateValid(u) ==
    /\ "age" \in DOMAIN u /\ ~IsNone(u["age"]) => TheValue(u["age"]) > UpdateAgeGt
    /\ "gender" \in DOMAIN u /\ ~IsNone(u["gender"])
          => TheValue(u["gender"]) \in GenderLiteral
    /\ "height" \in DOMAIN u /\ ~IsNone(u["height"])
          => TheValue(u["height"]) > UpdateHeightGt
    /\ "weight" \in DOMAIN u /\ ~IsNone(u["weight"])
          => TheValue(u["weight"]) > UpdateWeightGt

\* the validated object: every field, an unset one at its default None, and
\* the names of the fields the request body set (a field set to null is set)
PatientUpdate(u) ==
    [values |-> [f \in UpdateFields |-> IF f \in DOMAIN u THEN u[f] ELSE None],
     fields_set |-> DOMAIN u \cap UpdateFields]

\* faulty variant: model_dump() without exclude_unset, unset fields as None
model_dump_with_unset(patient_update) == patient_update.values

\* patient_update.model_dump(exclude_unset=True)
model_dump_exclude_unset(patient_update) ==
    [f \in patient_update.fields_set |-> patient_update.values[f]]

----------------------------------------------------------------------------
(* The store *)

load_data == file

\* save_data(data): the whole file is overwritten
save_data(data) == file' = data

----------------------------------------------------------------------------
(* The handlers, as functions of the `data` they loaded.  Each returns the
   status, whether it reaches save_data, the data it saves and the body. *)

Result(status, save, data, body) ==
    [status |-> status, save |-> save, data |-> data, body |-> body]

view_result(data) == Result(200, FALSE, data, data)

view_patient_result(data, patient_id) ==
    IF patient_id \in Keys(data)
    THEN Result(200, FALSE, data, <<Get(data, patient_id)>>)
    ELSE Result(404, FALSE, data, <<>>)

valid_fields == {"height", "weight", "bmi"}
valid_orders == {"asc", "desc"}

\* One step of the stable sort: x, which came after everything in the sorted
\* s, goes behind every element that does not have to follow it.
SortInsert(s, x, k, reverse) ==
    LET stays(y) == IF reverse THEN y[k] >= x[k] ELSE y[k] <= x[k]
        n == Cardinality({i \in DOMAIN s : stays(s[i])})
    IN  SubSeq(s, 1, n) \o <<x>> \o SubSeq(s, n + 1, Len(s))

\* faulty variant: descending order by reversing the ascending sort
RECURSIVE sorted_then_reversed(_, _, _)
sorted_then_reversed(values, k, reverse) ==
    IF reverse
    THEN LET up == sorted_then_reversed(values, k, FALSE)
         IN  [i \in DOMAIN up |-> up[Len(up) + 1 - i]]
    ELSE IF values = <<>> THEN <<>>
    ELSE SortInsert(sorted_then_reversed(SubSeq(values, 1, Len(values) - 1), k, FALSE),
                    values[Len(values)], k, FALSE)

\* sorted(values, key=lambda x: x[k], reverse=reverse)
RECURSIVE sorted(_, _, _)
sorted(values, k, reverse) ==
    IF values = <<>> THEN <<>>
    ELSE SortInsert(sorted(SubSeq(values, 1, Len(values) - 1), k, reverse),
                    values[Len(values)], k, reverse)

sort_patients_result(data, sort_by, order) ==
    IF sort_by \notin valid_fields THEN Result(400, FALSE, data, <<>>)
    ELSE IF order \notin valid_orders THEN Result(400, FALSE, data, <<>>)
    ELSE IF \E i \in DOMAIN data : sort_by \notin DOMAIN data[i].value
         THEN Result(500, FALSE, data, <<>>)       \* KeyError
    ELSE Result(200, FALSE, data, sorted(Values(data), sort_by, order = "desc"))

\* faulty variant: no check that the id is new
create_patient_unchecked(data, patient) ==
    Result(201, TRUE, SetItem(data, patient["id"], model_dump(patient, {"id"})), <<>>)

create_patient_result(data, patient) ==
    IF patient["id"] \in Keys(data) THEN Result(400, FALSE, data, <<>>)
    ELSE Result(201, TRUE,
                SetItem(data, patient["id"], model_dump(patient, {"id"})),
                <<>>)

\* existing_patient_info after the loop over the update and after
\* existing_patient_info['id'] = patient_id
MergedInfo(existing_patient_info, update_patient_info, patient_id) ==
    [f \in DOMAIN existing_patient_info \cup DOMAIN update_patient_info \cup {"id"} |->
        IF f = "id" THEN Some(patient_id)
        ELSE IF f \in DOMAIN update_patient_info THEN update_patient_info[f]
        ELSE Some(existing_patient_info[f])]

\* faulty variant: the merged dict is stored as it is, without the id, and
\* no Patient is rebuilt from it
MergedInfoStored(merged) == [f \in DOMAIN merged \ {"id"} |-> TheValue(merged[f])]

\* what update_patient puts under data[patient_id]
UpdatedInfo(merged) == model_dump(Patient(merged), {"id"})

update_patient_result(data, patient_id, patient_update) ==
    IF patient_id \notin Keys(data) THEN Result(404, FALSE, data, <<>>)
    ELSE LET merged == MergedInfo(Get(data, patient_id),
                                  model_dump_exclude_unset(patient_update),
                                  patient_id)
         IN  IF ~PatientValid(merged)
             THEN Result(500, FALSE, data, <<>>)   \* ValidationError, unhandled
             ELSE Result(200, TRUE,
                         SetItem(data, patient_id, UpdatedInfo(merged)), <<>>)

delete_patient_result(data, patient_id) ==
    IF patient_id \notin Keys(data) THEN Result(404, FALSE, data, <<>>)
    ELSE Result(200, TRUE, DelItem(data, patient_id), <<>>)

----------------------------------------------------------------------------
(* Requests *)

NoPayload == <<>>
Request(op, id, payload, sort_by, order) ==
    [op |-> op, id |-> id, payload |-> payload, sort_by |-> sort_by, order |-> order]

MkPayload(i, n, c, a, g, h, w) ==
    [id |-> i, name |-> n, city |-> c, age |-> a, gender |-> g,
     height |-> h, weight |-> w]

ValidPayloads ==
    {MkPayload(Some(i), Some(n), Some(c), Some(119), Some("male"), Some(h), Some(w)) :
        i \in Ids, n \in Names, c \in Cities, h \in Heights, w \in Weights}

\* bodies with one field out of range, not in the Literal, or null
FaultyPayloads ==
    LET p == MkPayload(Some(AllIds[1]), Some("Ann"), Some("Pune"), Some(119),
                       Some("male"), Some(150), Some(50))
    IN  {[p EXCEPT !.age = Some(0)], [p EXCEPT !.age = Some(120)],
         [p EXCEPT !.age = None], [p EXCEPT !.gender = Some("robot")],
         [p EXCEPT !.height = Some(0)], [p EXCEPT !.weight = Some(0)],
         [p EXCEPT !.name = None]}

CreateInputs == ValidPayloads \cup FaultyPayloads

UpdateInputs ==
    {NoPayload}
    \cup {"weight" :> o : o \in {Some(w) : w \in Weights} \cup {Some(0), None}}
    \cup {"height" :> Some(h) : h \in Heights}
    \cup {"age" :> o : o \in {Some(119), Some(120), Some(0), None}}
    \cup {"gender" :> Some("robot")}
    \cup {("height" :> Some(180)) @@ ("weight" :> Some(w)) : w \in Weights}

SortInputs ==
    (valid_fields \X valid_orders) \cup {<<"name", "asc">>, <<"bmi", "up">>}

----------------------------------------------------------------------------
(* The server handling one request at a time *)

concVars == <<pc, local, wreq, wresp, writes>>
verdictVars == <<bmiIn, verdictOut>>

Response(r) == [status |-> r.status, saved |-> r.save, body |-> r.body]
Rejected == [status |-> 422, saved |-> FALSE, body |-> <<>>]

\* run a handler on load_data() and save if it got that far
Handle(r) ==
    /\ resp' = Response(r)
    /\ before' = file
    /\ IF r.save THEN save_data(r.data) ELSE UNCHANGED file
    /\ UNCHANGED <<concVars, verdictVars>>

\* the body fails request validation: the handler does not run
Reject ==
    /\ resp' = Rejected
    /\ before' = file
    /\ UNCHANGED <<file, concVars, verdictVars>>

view ==
    /\ req' = Request("view", "", NoPayload, "", "")
    /\ Handle(view_result(load_data))

view_patient(patient_id) ==
    /\ req' = Request("view_patient", patient_id, NoPayload, "", "")
    /\ Handle(view_patient_result(load_data, patient_id))

sort_patients(sort_by, order) ==
    /\ req' = Request("sort", "", NoPayload, sort_by, order)
    /\ Handle(sort_patients_result(load_data, sort_by, order))

create_patient(body) ==
    /\ req' = Request("create", "", body, "", "")
    /\ IF PatientValid(body)
       THEN Handle(create_patient_result(load_data, Patient(body)))
       ELSE Reject

update_patient(patient_id, body) ==
    /\ req' = Request("update", patient_id, body, "", "")
    /\ IF PatientUpdateValid(body)
       THEN Handle(update_patient_result(load_data, patient_id, PatientUpdate(body)))
       ELSE Reject

delete_patient(patient_id) ==
    /\ req' = Request("delete", patient_id, NoPayload, "", "")
    /\ Handle(delete_patient_result(load_data, patient_id))

NoRequest == Request("none", "", NoPayload, "", "")
NoResponse == [status |-> 0, saved |-> FALSE, body |-> <<>>]

InitSeq ==
    /\ req = NoRequest
    /\ resp = NoResponse
    /\ before = <<>>

InitConc ==
    /\ pc = [w \in Workers |-> "idle"]
    /\ local = [w \in Workers |-> <<>>]
    /\ wreq = [w \in Workers |-> NoRequest]
    /\ wresp = [w \in Workers |-> 0]
    /\ writes = <<>>

NotComputed == "(not computed)"

InitVerdict ==
    /\ bmiIn = 0
    /\ verdictOut = NotComputed

Init ==
    /\ file = <<>>
    /\ InitSeq
    /\ InitConc
    /\ InitVerdict

Next ==
    \/ view
    \/ \E patient_id \in Ids : view_patient(patient_id)
    \/ \E s \in SortInputs : sort_patients(s[1], s[2])
    \/ \E body \in CreateInputs : create_patient(body)
    \/ \E patient_id \in Ids, body \in UpdateInputs : update_patient(patient_id, body)
    \/ \E patient_id \in Ids : delete_patient(patient_id)

Spec == Init /\ [][Next]_vars

----------------------------------------------------------------------------
(* The server handling two mutating requests at once.  A sync handler runs
   in a worker thread; nothing orders one worker's load_data and save_data
   against another's: a handler is a load step and, later, a step that
   computes on what was loaded and saves. *)

seqVars == <<req, resp, before>>

\* what a sequential run of creates can have left in the file
InitialFiles ==
    {<<>>} \cup {SetItem(<<>>, TheValue(p["id"]), model_dump(Patient(p), {"id"})) :
                    p \in ValidPayloads}

MutatingRequests ==
    {Request("create", "", p, "", "") : p \in ValidPayloads}
    \cup {Request("update", i, "weight" :> Some(w), "", "") : i \in Ids, w \in Weights}
    \cup {Request("delete", i, NoPayload, "", "") : i \in Ids}

mutating_result(data, r) ==
    CASE r.op = "create" -> create_patient_result(data, Patient(r.payload))
      [] r.op = "update" -> update_patient_result(data, r.id, PatientUpdate(r.payload))
      [] r.op = "delete" -> delete_patient_result(data, r.id)

\* data = load_data(), the handler's first line
Load(w, r) ==
    /\ pc[w] = "idle"
    /\ pc' = [pc EXCEPT ![w] = "loaded"]
    /\ wreq' = [wreq EXCEPT ![w] = r]
    /\ local' = [local EXCEPT ![w] = load_data]
    /\ UNCHANGED <<file, wresp, writes, seqVars, verdictVars>>

\* variant with an atomic read-modify-write: the handler works on the file
\* as it is when it saves
reloaded_data(w) == file

\* the `data` the rest of the handler works on
handler_data(w) == local[w]

\* the rest of the handler: the checks, the change to data, save_data(data)
Finish(w) ==
    /\ pc[w] = "loaded"
    /\ LET r == mutating_result(handler_data(w), wreq[w])
       IN  /\ IF r.save
              THEN save_data(r.data) /\ writes' = Append(writes, w)
              ELSE UNCHANGED <<file, writes>>
           /\ wresp' = [wresp EXCEPT ![w] = r.status]
    /\ pc' = [pc EXCEPT ![w] = "done"]
    /\ UNCHANGED <<local, wreq, seqVars, verdictVars>>

InitC ==
    /\ file \in InitialFiles
    /\ InitSeq
    /\ InitConc
    /\ InitVerdict

NextC ==
    \/ \E w \in Workers, r \in MutatingRequests : Load(w, r)
    \/ \E w \in Workers : Finish(w)

SpecC == InitC /\ [][NextC]_vars

----------------------------------------------------------------------------
(* Patient.verdict on its own: a bmi is drawn, the property is read *)

verdict_call ==
    /\ verdictOut = NotComputed
    /\ verdictOut' = verdict(bmiIn)
    /\ UNCHANGED <<bmiIn, file, seqVars, concVars>>

InitV ==
    /\ file = <<>>
    /\ InitSeq
    /\ InitConc
    /\ bmiIn \in 0..MaxBmi
    /\ verdictOut = NotComputed

NextV == verdict_call

SpecV == InitV /\ [][NextV]_vars

----------------------------------------------------------------------------
(* Properties *)

Stored(data) == {data[i].value : i \in DOMAIN data}
Without(data, k) == SelectSeq(data, LAMBDA e : e.key # k)
CreateId == TheValue(req.payload["id"])
Buckets == {"Underweight", "Normal weight", "Overweight", "Obesity"}

\* C1: a POST /create of a valid Patient whose id is already a key answers
\* 400, does not save, and leaves the whole collection as it was.
C1_DuplicateCreateRejected ==
    (req.op = "create" /\ PatientValid(req.payload) /\ CreateId \in Keys(before))
        => /\ resp.status = 400
           /\ ~resp.saved
           /\ file = before

\* a duplicate create that carried other values than the stored record
C1_Witness ==
    /\ req.op = "create"
    /\ PatientValid(req.payload)
    /\ CreateId \in Keys(before)
    /\ Get(before, CreateId)["weight"] # TheValue(req.payload["weight"])
    /\ resp.status = 400

\* C2: a PUT /update/{id} of an existing id that sets only weight, to a value
\* above 0, leaves name, city, age, gender and height of the record as they
\* were, stores the new weight with bmi and verdict computed from the new
\* weight and the old height, and leaves every other record unchanged.
C2_WeightOnlyUpdate ==
    (/\ req.op = "update"
     /\ req.id \in Keys(before)
     /\ DOMAIN req.payload = {"weight"}
     /\ ~IsNone(req.payload["weight"])
     /\ TheValue(req.payload["weight"]) > 0)
        => /\ Len(file) = Len(before)
           /\ \A i \in DOMAIN before :
                IF before[i].key # req.id THEN file[i] = before[i]
                ELSE LET old == before[i].value
                         new == file[i].value
                         w == TheValue(req.payload["weight"])
                     IN  /\ file[i].key = req.id
                         /\ \A f \in {"name", "city", "age", "gender", "height"} :
                                new[f] = old[f]
                         /\ new["weight"] = w
                         /\ new["bmi"] = bmi(old["height"], w)
                         /\ new["verdict"] = verdict(bmi(old["height"], w))

\* a weight-only update that changed the weight, with another record beside it
C2_Witness ==
    /\ req.op = "update"
    /\ req.id \in Keys(before)
    /\ DOMAIN req.payload = {"weight"}
    /\ ~IsNone(req.payload["weight"])
    /\ Get(before, req.id)["weight"] # TheValue(req.payload["weight"])
    /\ Get(file, req.id)["weight"] = TheValue(req.payload["weight"])
    /\ Len(file) > 1

\* C3: DELETE /delete/{id} of an absent id answers 404 and leaves the
\* collection unchanged; of a present id it answers 200 and removes exactly
\* that key; GET /view/{id} of an absent id answers 404, and an absent id
\* becomes present only by a create of that id that succeeds.
C3_DeleteThenNotFound ==
    /\ (req.op = "delete" /\ req.id \notin Keys(before))
          => (resp.status = 404 /\ file = before)
    /\ (req.op = "delete" /\ req.id \in Keys(before))
          => (resp.status = 200 /\ file = Without(before, req.id))
    /\ (req.op = "view_patient" /\ req.id \notin Keys(before))
          => resp.status = 404
    /\ \A i \in Keys(file) \ Keys(before) :
          req.op = "create" /\ CreateId = i /\ resp.status = 201

\* the delete of one of two records: its key is gone, the other is left
C3_Witness ==
    /\ req.op = "delete"
    /\ resp.status = 200
    /\ Len(before) = 2
    /\ Len(file) = 1
    /\ req.id \notin Keys(file)

\* the view of an absent id in a collection that holds another record
C3_ViewAbsent ==
    /\ req.op = "view_patient"
    /\ resp.status = 404
    /\ file # <<>>

\* C4: GET /view/{id} of a present id returns a record whose bmi is
\* round(weight/(height/100)^2, 2) and whose verdict is Patient.verdict of
\* that bmi, both computed from the height and weight of that record.
C4_DerivedFieldsFresh ==
    (req.op = "view_patient" /\ req.id \in Keys(before))
        => /\ resp.status = 200
           /\ LET r == resp.body[1]
              IN  /\ r["bmi"] = bmi(r["height"], r["weight"])
                  /\ r["verdict"] = verdict(bmi(r["height"], r["weight"]))

\* the view of a stored record, answered with its derived fields
C4_Witness ==
    /\ req.op = "view_patient"
    /\ resp.status = 200
    /\ resp.body[1]["height"] = 180
    /\ resp.body[1]["weight"] = 50
    /\ resp.body[1]["bmi"] = 1543
    /\ resp.body[1]["verdict"] = "Underweight"

\* C5: every stored record satisfies the base Patient constraints, and an
\* update whose merged record breaks one (a field set to null, an age of 120
\* or more) is rejected without a save and leaves the collection unchanged.
C5_BaseConstraintsKept ==
    /\ \A r \in Stored(file) :
          /\ r["age"] \in Int /\ 0 < r["age"] /\ r["age"] < 120
          /\ r["height"] > 0
          /\ r["weight"] > 0
          /\ r["gender"] \in {"male", "female", "other"}
    /\ (/\ req.op = "update"
        /\ req.id \in Keys(before)
        /\ \/ \E f \in DOMAIN req.payload : IsNone(req.payload[f])
           \/ /\ "age" \in DOMAIN req.payload
              /\ ~IsNone(req.payload["age"])
              /\ TheValue(req.payload["age"]) >= 120)
          => (resp.status \notin {200, 201} /\ ~resp.saved /\ file = before)

\* an update to age 120, which PatientUpdate accepts, was refused
C5_Witness ==
    /\ req.op = "update"
    /\ req.id \in Keys(before)
    /\ "age" \in DOMAIN req.payload
    /\ req.payload["age"] = Some(120)
    /\ resp.status = 500
    /\ file = before

IsStableSortOf(out, vals, k, desc) ==
    /\ Len(out) = Len(vals)
    /\ \E p \in [DOMAIN out -> DOMAIN vals] :
          /\ \A i, j \in DOMAIN out : i # j => p[i] # p[j]
          /\ \A i \in DOMAIN out : out[i] = vals[p[i]]
          /\ \A i, j \in DOMAIN out :
                i < j => /\ IF desc THEN out[i][k] >= out[j][k]
                                    ELSE out[i][k] <= out[j][k]
                         /\ out[i][k] = out[j][k] => p[i] < p[j]

\* C6: GET /sort by height, weight or bmi, asc or desc, returns a permutation
\* of the record bodies ordered by the key, records with equal keys in their
\* order in the collection, and does not modify the collection.
C6_SortStable ==
    (req.op = "sort" /\ req.sort_by \in {"height", "weight", "bmi"}
                     /\ req.order \in {"asc", "desc"})
        => /\ resp.status = 200
           /\ file = before
           /\ IsStableSortOf(resp.body, Values(before), req.sort_by,
                             req.order = "desc")

\* a descending sort over two different records with equal keys
C6_Witness ==
    /\ req.op = "sort"
    /\ req.order = "desc"
    /\ req.sort_by = "bmi"
    /\ resp.status = 200
    /\ Len(resp.body) = 2
    /\ resp.body[1]["bmi"] = resp.body[2]["bmi"]
    /\ resp.body[1] # resp.body[2]

\* C7 as claimed: every stored value holds exactly the fields of Patient minus
\* the identifier; bmi and verdict are never stored.
C7_DerivedNeverStored ==
    \A r \in Stored(file) :
        DOMAIN r = {"name", "city", "age", "gender", "height", "weight"}

\* C7 amended: every stored value holds exactly the fields of Patient minus
\* the identifier and the two computed fields bmi and verdict.
C7_DerivedStored ==
    \A r \in Stored(file) :
        DOMAIN r = {"name", "city", "age", "gender", "height", "weight",
                    "bmi", "verdict"}

\* a collection written by an update, after a create
C7_Witness ==
    /\ req.op = "update"
    /\ resp.saved
    /\ file # <<>>

\* C8 as claimed: Underweight iff bmi < 18.5, Normal weight iff
\* 18.5 <= bmi < 24.9, Overweight iff 25 <= bmi < 29.9, Obesity iff
\* bmi >= 29.9, and a bmi in [24.9, 25) gets none of the four.
C8_VerdictBuckets ==
    verdictOut # NotComputed
        => /\ verdictOut = "Underweight" <=> bmiIn < 1850
           /\ verdictOut = "Normal weight" <=> (1850 <= bmiIn /\ bmiIn < 2490)
           /\ verdictOut = "Overweight" <=> (2500 <= bmiIn /\ bmiIn < 2990)
           /\ verdictOut = "Obesity" <=> bmiIn >= 2990
           /\ (2490 <= bmiIn /\ bmiIn < 2500) => verdictOut \notin Buckets

\* C9: of two mutating requests that both saved, the file holds what the one
\* that saved last computed from its own load, whatever the other had saved
\* in between.
C9_LastWriterWins ==
    writes # <<>>
        => LET w == writes[Len(writes)]
           IN  file = mutating_result(local[w], wreq[w]).data

\* both requests answered success, both saved, and the record the first one
\* created is not in the file
C9_Witness ==
    /\ \A w \in Workers : pc[w] = "done" /\ wresp[w] \in {200, 201}
    /\ Len(writes) = 2
    /\ wreq[writes[1]].op = "create"
    /\ TheValue(wreq[writes[1]].payload["id"]) \notin Keys(file)
    /\ wreq[writes[2]].op = "create"

\* C10: no stored record body has an 'id' field, after successful and failed
\* requests alike.
C10_NoIdInBody ==
    \A r \in Stored(file) : "id" \notin DOMAIN r

\* a record an update has rewritten
C10_Witness ==
    /\ req.op = "update"
    /\ resp.status = 200
    /\ resp.saved
    /\ "id" \notin DOMAIN Get(file, req.id)

====
